---- MODULE Spec2Model ----
(***************************************************************************)
(* Model of random_walk (src/src/random_walk.cpp): one trajectory of a     *)
(* random walk between the absorbing barriers 0 and a.                     *)
(*                                                                         *)
(* Doubles are represented in fixed point: the integer n stands for the    *)
(* double n / Scale.  Scale is a power of two and the inputs are drawn     *)
(* from small dyadic values, so every sum, product and square root the     *)
(* function computes on them is exact in IEEE double arithmetic and is     *)
(* the same number the fixed-point operators below compute.  The inputs    *)
(* have t_eps >= 0 (sqrt of a negative number is outside the model).       *)
(***************************************************************************)
EXTENDS Integers, FiniteSets, Sequences, TLC

VARIABLES b, a, v, t_eps, delta, p, x, tic, r, choice, time, pc, draws

vars == <<b, a, v, t_eps, delta, p, x, tic, r, choice, time, pc, draws>>

params == <<b, a, v, t_eps, delta, p>>

(* ------------------------------ doubles -------------------------------- *)

Scale == 16

One == Scale

Half == Scale \div 2

Undef == 0 - 1

ToDouble(n) == n * Scale

Mul(y, z) == (y * z) \div Scale

RECURSIVE SqrtFrom(_, _)
SqrtFrom(n, d) == IF (d + 1) * (d + 1) > n THEN d ELSE SqrtFrom(n, d + 1)

Sqrt(t) == SqrtFrom(t * Scale, 0)

(* ------------------------------- bounds -------------------------------- *)

MaxTic == 10

IntBits == 5

BarrierValues == {0, One, 2 * One}

StartValues == {0 - 4, 0, 4, 8, 12, 16, 20}

DriftValues == {0 - 128, 0 - 64, 0 - 16, 0, 16, 64, 128}

TimeStepValues == {0, 1, 4, 16}

Draws == 0..(One - 1)

(* ----------------------------- random_walk ----------------------------- *)

StepSizeClamped(t) == IF Sqrt(t) = 0 THEN 1 ELSE Sqrt(t)

StepSize(t) == Sqrt(t)

UpProbability(vv, dd) == Mul(Half, One + Mul(vv, dd))

StartPosition(aa, bb) == Mul(aa, bb)

EntryPcWhile(xx, aa) == IF (xx < aa) /\ (xx > 0) THEN "loop" ELSE "classify"

EntryPc(xx, aa) == "loop"

Init ==
    /\ b \in StartValues
    /\ a \in BarrierValues
    /\ v \in DriftValues
    /\ t_eps \in TimeStepValues
    /\ delta = StepSize(t_eps)
    /\ p = UpProbability(v, delta)
    /\ x = StartPosition(a, b)
    /\ tic = 0
    /\ r = Undef
    /\ choice = Undef
    /\ time = Undef
    /\ draws = 0
    /\ pc = EntryPc(x, a)

MoveLe(xx, rr, pp, dd) == IF rr <= pp THEN xx + dd ELSE xx - dd

MoveSwapped(xx, rr, pp, dd) == IF rr < pp THEN xx - dd ELSE xx + dd

MoveNoDown(xx, rr, pp, dd) == IF rr < pp THEN xx + dd ELSE xx

Move(xx, rr, pp, dd) == IF rr < pp THEN xx + dd ELSE xx - dd

ContinueLe(xx, aa) == (xx <= aa) /\ (xx >= 0)

ContinueOr(xx, aa) == (xx < aa) \/ (xx > 0)

Continue(xx, aa) == (xx < aa) /\ (xx > 0)

NextTicTwice(n) == n + 2

NextTic(n) == n + 1

Body(rr, n, m) ==
    /\ pc = "loop"
    /\ r' = rr
    /\ draws' = m
    /\ x' = Move(x, rr, p, delta)
    /\ tic' = n
    /\ pc' = IF Continue(x', a) THEN "loop" ELSE "classify"
    /\ UNCHANGED <<params, choice, time>>

Step ==
    /\ tic < MaxTic
    /\ \E rr \in Draws : Body(rr, NextTic(tic), draws + 1)

OutcomeGe(xx, aa) == IF xx >= aa THEN 1 ELSE 0

OutcomeSwapped(xx, aa) == IF xx > aa THEN 0 ELSE 1

Outcome(xx, aa) == IF xx > aa THEN 1 ELSE 0

Classify ==
    /\ pc = "classify"
    /\ choice' = Outcome(x, a)
    /\ pc' = "return"
    /\ UNCHANGED <<params, x, tic, r, time, draws>>

ElapsedBefore(n, t) == Mul(ToDouble(n - 1), t)

Elapsed(n, t) == Mul(ToDouble(n), t)

Return ==
    /\ pc = "return"
    /\ time' = Elapsed(tic, t_eps)
    /\ pc' = "done"
    /\ UNCHANGED <<params, x, tic, r, choice, draws>>

Next == Step \/ Classify \/ Return

Spec == Init /\ [][Next]_vars

(* The same walk with the two step counters held at MaxTic once they reach *)
(* it, so that walks of any length are followed: the loop test reads only  *)
(* x and a.  UpAt(k) is an iteration that starts at position k and draws   *)
(* r < p.                                                                  *)
Held(n) == IF n > MaxTic THEN MaxTic ELSE n

StepAnyLength == \E rr \in Draws : Body(rr, Held(NextTic(tic)), Held(draws + 1))

UpAt(k) == x = k /\ \E rr \in Draws : rr < p /\ Body(rr, Held(NextTic(tic)), Held(draws + 1))

Positions == {k \in 1..(2 * One - 1) : k % (One \div 4) = 0}

NextAnyLength == StepAnyLength \/ Classify \/ Return

FairSpec ==
    /\ Init
    /\ [][NextAnyLength]_vars
    /\ WF_vars(NextAnyLength)
    /\ \A k \in Positions : SF_vars(UpAt(k))

(* The walk fed from a fixed source that alternates a draw below 0.5 and a *)
(* draw above 0.5, starting below.                                         *)
AltDraw(n) == IF n % 2 = 0 THEN Half - 2 ELSE Half + 2

StepAlternating ==
    /\ tic < MaxTic
    /\ Body(AltDraw(draws), NextTic(tic), draws + 1)

NextAlternating == StepAlternating \/ Classify \/ Return

AltSpec == Init /\ [][NextAlternating]_vars

(* The walk with tic as a signed int of IntBits bits (the program's int    *)
(* has 32; the model follows a narrower one so that the walk reaches the   *)
(* largest value).  tic++ at the largest value is a signed overflow, which *)
(* is undefined: the build either wraps the register to the smallest value *)
(* or keeps counting in a wider register.  The walk is followed MaxTic     *)
(* draws past the overflow.                                                *)
IntMax == 2 ^ (IntBits - 1) - 1

IntMin == 0 - 2 ^ (IntBits - 1)

Increment(n) == IF n = IntMax THEN {IntMin, IntMax + 1} ELSE {NextTic(n)}

StepInt ==
    /\ draws < IntMax + MaxTic
    /\ \E rr \in Draws : \E n \in Increment(tic) : Body(rr, n, draws + 1)

NextInt == StepInt \/ Classify \/ Return

IntSpec == Init /\ [][NextInt]_vars

(* --------------------------- helper predicates ------------------------- *)

x0 == StartPosition(a, b)

Exited == pc \in {"classify", "return", "done"}

Inside(xx) == 0 < xx /\ xx < a

CeilDiv(n, d) == (n + d - 1) \div d

ValidBarrierAndStep == a > 0 /\ t_eps > 0

StartInRange == 0 <= b /\ b <= One

(* -------------------------------- claims ------------------------------- *)

C2Original ==
    (ValidBarrierAndStep /\ StartInRange /\ pc \in {"return", "done"}) =>
        /\ choice \in {0, 1}
        /\ choice = 1 <=> x >= a
        /\ choice = 0 <=> x <= 0

(* C2 amended: at return choice is 0 or 1, choice = 1 exactly when the     *)
(* final position is strictly above the upper barrier (x > a) and          *)
(* choice = 0 exactly when x <= 0 or x = a.                                *)
C2Classification ==
    (ValidBarrierAndStep /\ StartInRange /\ pc \in {"return", "done"}) =>
        /\ choice \in {0, 1}
        /\ choice = 1 <=> x > a
        /\ choice = 0 <=> (x <= 0 \/ x = a)

C2Witness ==
    /\ ValidBarrierAndStep
    /\ StartInRange
    /\ pc = "done"
    /\ tic > 1
    /\ x = a
    /\ choice = 0

(* C3: with a > 0, after every step the walk stays in the loop whenever    *)
(* 0 < x < a and only then, and it has left the loop (and choice is        *)
(* assigned) only in states with x <= 0 or x >= a.                         *)
C3BarrierContainment ==
    a > 0 =>
        /\ (tic > 0 /\ Inside(x)) => pc = "loop"
        /\ (tic > 0 /\ pc = "loop") => Inside(x)
        /\ Exited => (x <= 0 \/ x >= a)
        /\ choice # Undef => (Exited /\ ~Inside(x))

C3Witness ==
    /\ a > 0
    /\ pc = "loop"
    /\ tic > 2
    /\ Inside(x)
    /\ x # x0

(* C4: a final position exactly equal to a returns choice = 0, a final     *)
(* position above a returns choice = 1, every other exit returns 0.        *)
C4BoundaryClassification ==
    pc \in {"return", "done"} =>
        /\ x = a => choice = 0
        /\ x > a => choice = 1
        /\ x < a => choice = 0

C4Witness ==
    /\ pc = "return"
    /\ x = a
    /\ a > 0
    /\ choice = 0

RECURSIVE RunExits(_, _, _)
RunExits(xx, rr, n) ==
    IF n = 0 THEN FALSE
    ELSE LET y == Move(xx, rr, p, delta)
         IN  IF Continue(y, a) THEN RunExits(y, rr, n - 1) ELSE TRUE

NonDegenerate == ValidBarrierAndStep /\ 0 < p /\ p < One

C7ExitReachable ==
    (NonDegenerate /\ pc = "loop") =>
        /\ \E rr \in Draws : rr < p
        /\ \E rr \in Draws : ~(rr < p)
        /\ \A rr \in Draws : RunExits(x, rr, CeilDiv(a, delta) + 1)

C7Termination ==
    /\ []C7ExitReachable
    /\ NonDegenerate => <>(pc = "done")

C7Witness ==
    /\ NonDegenerate
    /\ pc = "done"
    /\ tic = MaxTic
    /\ draws = MaxTic
    /\ r < p
    /\ choice = 1

(* C9: no input leads to an error outcome: every call either returns a    *)
(* choice in {0, 1} with time = tic * t_eps or is still stepping, also for *)
(* a <= 0, b outside [0,1], p outside [0,1] and t_eps = 0; and with        *)
(* t_eps = 0 and a start strictly inside (0, a) the position never changes *)
(* and the loop is never left.                                             *)
C9NoErrorOutcome ==
    /\ pc \in {"loop", "classify", "return", "done"}
    /\ pc = "done" => (choice \in {0, 1} /\ time = tic * t_eps /\ tic >= 1)
    /\ pc = "loop" => (choice = Undef /\ time = Undef)
    /\ (t_eps = 0 /\ Inside(x0)) =>
           (delta = 0 /\ x = x0 /\ pc = "loop")

C9Witness ==
    /\ t_eps = 0
    /\ Inside(x0)
    /\ pc = "loop"
    /\ tic = MaxTic
    /\ r >= p

Scenario11 == b = Half /\ a = One /\ v = 0 /\ delta > 0 /\ x0 + delta < a

OnBarrier == a > delta /\ delta > 0 /\ b \in {0, One}

ReturnsAtOnce(c) ==
    /\ Exited
    /\ pc \in {"return", "done"} => choice = c
    /\ pc = "done" => time = t_eps

C12StartOnBarrier ==
    OnBarrier =>
        /\ x0 = (IF b = 0 THEN 0 ELSE a)
        /\ tic = 0 => (x = x0 /\ pc = "loop")
        /\ (tic = 0 /\ 0 < p) => \E rr \in Draws : rr < p
        /\ (tic = 0 /\ p < One) => \E rr \in Draws : ~(rr < p)
        /\ (tic = 1 /\ b = 0 /\ ~(r < p)) => (x = 0 - delta /\ ReturnsAtOnce(0))
        /\ (tic = 1 /\ b = 0 /\ r < p) => (x = delta /\ pc = "loop")
        /\ (tic = 1 /\ b = One /\ r < p) => (x = a + delta /\ ReturnsAtOnce(1))
        /\ (tic = 1 /\ b = One /\ ~(r < p)) => (x = a - delta /\ pc = "loop")
        /\ Exited => (tic = 1 <=> ((b = 0 /\ ~(r < p) /\ x = 0 - delta) \/ (b = One /\ r < p /\ x = a + delta)))

C12Witness ==
    /\ OnBarrier
    /\ b = One
    /\ 0 < p /\ p < One
    /\ pc = "done"
    /\ tic = 1
    /\ x = a + delta
    /\ choice = 1
    /\ time = t_eps

C14NonNegative ==
    (ValidBarrierAndStep /\ StartInRange) =>
        /\ tic >= 0
        /\ pc = "done" => time >= 0

====
